---- MODULE Spec2Model ----
(***************************************************************************)
(* A model of the crypto core of mega.py (src/src/mega/crypto.py)          *)
(* and of the modernizer script (src/modernize_mega.py), which has its     *)
(* own section and specification, SpecModernize, at the end.               *)
(*                                                                         *)
(* Data representation                                                     *)
(*   byte buffer  : a sequence of integers 0..255                          *)
(*   32-bit word  : the pair <<hi, lo>> of its two 16-bit halves (the word *)
(*                  hi * 65536 + lo); TLC's integers are 32-bit signed, so *)
(*                  a word such as 0x93C467E3 does not fit in one integer  *)
(*   word array   : a sequence of words                                    *)
(*   text         : a sequence of character codes (latin-1, one per byte)  *)
(*   mapping      : a sequence of <<key text, value text>> pairs, in       *)
(*                  insertion order (a Python dict of str -> str)          *)
(*   result       : [kind, val, msg]; kind is the type of the value        *)
(*                  returned ("bytes", "words", "map", "None", "int",      *)
(*                  "tuple") or the class of the exception raised          *)
(*                  ("ValueError", "Exception")                            *)
(***************************************************************************)
EXTENDS Integers, Sequences, FiniteSets, TLC

VARIABLES
    fn,      \* name of the function called last ("none" before any call)
    key,     \* its key argument (<<>> for a function without a key)
    arg,     \* its data argument
    ret,     \* its result
    prev,    \* the call before it, as [fn, key, arg, ret]
    depth,   \* how many calls in a row fed on the previous call's value
    size,    \* get_chunks: the size argument of the generator
    p,       \* get_chunks: local p
    s,       \* get_chunks: local s
    gpc,     \* get_chunks: where the generator is suspended
    emitted, \* get_chunks: the pairs the consumer has received so far
    thr,     \* threads: what each thread is calling and how far it is
    frames,  \* threads: the locals p, s of each generator frame
    rng,     \* threads: the state of the process-wide random generator
    files,        \* modernizer: the files under project_dir, path -> lines
    before,       \* modernizer: the files as they were when the run began
    scanOrder,    \* modernizer: the order in which a directory lists its entries
    dotRoot,      \* modernizer: project_dir itself lies under a dot directory
    mpc,          \* modernizer: the step run_modernization is about to take
    mret,         \* modernizer: what run_modernization returned
    python_files, \* modernizer: self.python_files
    raisedIn,     \* modernizer: the step whose exception reached the handler
    restored      \* modernizer: _restore_backup has been called

vars ==
    <<fn, key, arg, ret, prev, depth, size, p, s, gpc, emitted, thr, frames, rng,
      files, before, scanOrder, dotRoot, mpc, mret, python_files, raisedIn, restored>>
callVars == <<fn, key, arg, ret, prev, depth>>
genVars == <<size, p, s, gpc, emitted>>
thrVars == <<thr, frames, rng>>
modVars == <<files, before, scanOrder, dotRoot, mpc, mret, python_files, raisedIn, restored>>

----------------------------------------------------------------------------
(* Bounds of the model.                                                    *)

\* longest word array given as data (words)
MaxWords == 8
\* calls in a row that take the previous call's value as their data
MaxChain == 2
\* largest number given to extended_gcd / modular_inverse
MaxNum == 12
\* get_chunks sizes go up to MaxUnits half-steps (of 65536 bytes)
MaxUnits == 110
\* longest attribute value (characters)
MaxName == 4
\* longest buffer given to base64_url_encode (bytes)
MaxBufLen == 17
\* threads calling into the module at the same time
NumThreads == 2
\* longest identifier asked of make_id (characters)
MaxIdLen == 2
\* most magnitude bytes of a multi-precision integer (up to 4 bytes, the
\* first below 128, stay within TLC's integers)
MaxMpiBytes == 3

----------------------------------------------------------------------------
(* Results.                                                                *)

Ok(kind, val) == [kind |-> kind, val |-> val, msg |-> ""]

Raise(exc, msg) == [kind |-> exc, val |-> <<>>, msg |-> msg]

IsError(r) == r.kind \in {"ValueError", "JSONDecodeError", "Exception"}

NoCall == [kind |-> "none", val |-> <<>>, msg |-> ""]

----------------------------------------------------------------------------
(* Bytes and words.                                                        *)

RECURSIVE Xor(_, _)
Xor(a, b) ==
    IF a = 0 THEN b
    ELSE IF b = 0 THEN a
    ELSE ((a + b) % 2) + 2 * Xor(a \div 2, b \div 2)

Zeros(n) == [i \in 1..n |-> 0]

\* makebyte('\0' * 16): the initialisation vector of every cipher object
ZeroIV == Zeros(16)

\* a32_to_str packing each word with its low byte first ('<' for '>')
a32_to_str_little_endian(a) ==
    [i \in 1..(4 * Len(a)) |->
        LET w == a[((i - 1) \div 4) + 1]
            k == (i - 1) % 4
        IN  IF k = 0 THEN w[2] % 256
            ELSE IF k = 1 THEN w[2] \div 256
            ELSE IF k = 2 THEN w[1] % 256
            ELSE w[1] \div 256]

\* struct.pack('>%dI' % len(a), *a): each word as 4 bytes, big-endian
a32_to_str(a) ==
    [i \in 1..(4 * Len(a)) |->
        LET w == a[((i - 1) \div 4) + 1]
            k == (i - 1) % 4
        IN  IF k = 0 THEN w[1] \div 256
            ELSE IF k = 1 THEN w[1] % 256
            ELSE IF k = 2 THEN w[2] \div 256
            ELSE w[2] % 256]

\* pad with zero bytes to a multiple of 4, then struct.unpack('>%dI')
str_to_a32(b) ==
    LET padded == IF Len(b) % 4 # 0 THEN b \o Zeros(4 - (Len(b) % 4)) ELSE b
    IN  [j \in 1..(Len(padded) \div 4) |->
            << padded[4 * j - 3] * 256 + padded[4 * j - 2],
               padded[4 * j - 1] * 256 + padded[4 * j] >>]

----------------------------------------------------------------------------
(* The AES library (PyCryptodome), which the repository only calls.  The   *)
(* block cipher is abstracted as a keyed permutation of 16-byte blocks:    *)
(* what the callers rely on is that, under one key, the block decryption   *)
(* inverts the block encryption.  The CBC chaining, the IV and the length  *)
(* check of the library are modelled as they are.                          *)

KeyByte(k, i) == (k[i] + 3 * k[i + 16] + i) % 256

Rot(i) == (i % 16) + 1

RotInv(j) == ((j + 14) % 16) + 1

BlockEncrypt(k, b) == [i \in 1..16 |-> (b[Rot(i)] + KeyByte(k, i)) % 256]

BlockDecrypt(k, c) ==
    [j \in 1..16 |-> (c[RotInv(j)] + 256 - KeyByte(k, RotInv(j))) % 256]

XorBlock(x, y) == [i \in 1..16 |-> Xor(x[i], y[i])]

RECURSIVE CbcEncryptBlocks(_, _, _)
CbcEncryptBlocks(k, iv, data) ==
    IF Len(data) = 0 THEN <<>>
    ELSE LET c == BlockEncrypt(k, XorBlock(SubSeq(data, 1, 16), iv))
         IN  c \o CbcEncryptBlocks(k, c, SubSeq(data, 17, Len(data)))

RECURSIVE CbcDecryptBlocks(_, _, _)
CbcDecryptBlocks(k, iv, data) ==
    IF Len(data) = 0 THEN <<>>
    ELSE LET c == SubSeq(data, 1, 16)
         IN  XorBlock(BlockDecrypt(k, c), iv)
                \o CbcDecryptBlocks(k, c, SubSeq(data, 17, Len(data)))

\* AES.new(key, AES.MODE_CBC, iv).encrypt(data)
AES_CBC_encrypt(k, iv, data) ==
    IF Len(data) % 16 # 0
    THEN Raise("ValueError", "Data must be padded to 16 byte boundary in CBC mode")
    ELSE Ok("bytes", CbcEncryptBlocks(k, iv, data))

\* AES.new(key, AES.MODE_CBC, iv).decrypt(data)
AES_CBC_decrypt(k, iv, data) ==
    IF Len(data) % 16 # 0
    THEN Raise("ValueError", "Data must be padded to 16 byte boundary in CBC mode")
    ELSE Ok("bytes", CbcDecryptBlocks(k, iv, data))
----------------------------------------------------------------------------
(* The JSON library, which the repository only calls, on the objects the   *)
(* model uses: string keys and string values without escapes.              *)

Quoted(t) == <<34>> \o t \o <<34>>

RECURSIVE DumpMembers(_)
DumpMembers(m) ==
    IF Len(m) = 0 THEN <<>>
    ELSE Quoted(m[1][1]) \o <<58, 32>> \o Quoted(m[1][2])
            \o (IF Len(m) = 1 THEN <<>> ELSE <<44, 32>> \o DumpMembers(Tail(m)))

\* json.dumps(attr): {"k": "v", "k2": "v2"}
json_dumps(m) == <<123>> \o DumpMembers(m) \o <<125>>

ParseFail == [ok |-> FALSE, val |-> <<>>, next |-> 0]

RECURSIVE SkipWs(_, _)
SkipWs(t, i) ==
    IF i <= Len(t) /\ t[i] \in {32, 9, 10, 13} THEN SkipWs(t, i + 1) ELSE i

ParseString(t, i) ==
    IF i > Len(t) \/ t[i] # 34 THEN ParseFail
    ELSE LET ends == {j \in (i + 1)..Len(t) : t[j] = 34}
         IN  IF ends = {} THEN ParseFail
             ELSE LET j == CHOOSE e \in ends : \A o \in ends : e <= o
                      body == SubSeq(t, i + 1, j - 1)
                  IN  IF \E x \in 1..Len(body) : body[x] = 92 \/ body[x] < 32
                      THEN ParseFail
                      ELSE [ok |-> TRUE, val |-> body, next |-> j + 1]

\* d[k] = v on a dict kept as a sequence of pairs in insertion order
DictSet(d, k, v) ==
    IF \E i \in 1..Len(d) : d[i][1] = k
    THEN [i \in 1..Len(d) |-> IF d[i][1] = k THEN <<k, v>> ELSE d[i]]
    ELSE Append(d, <<k, v>>)

RECURSIVE ParseMembers(_, _, _)
ParseMembers(t, i, acc) ==
    LET k == ParseString(t, i)
        c == SkipWs(t, k.next)
        v == ParseString(t, SkipWs(t, c + 1))
        acc2 == DictSet(acc, k.val, v.val)
        e == SkipWs(t, v.next)
    IN  IF ~k.ok THEN ParseFail
        ELSE IF c > Len(t) \/ t[c] # 58 THEN ParseFail
        ELSE IF ~v.ok THEN ParseFail
        ELSE IF e > Len(t) THEN ParseFail
        ELSE IF t[e] = 125 THEN [ok |-> TRUE, val |-> acc2, next |-> e + 1]
        ELSE IF t[e] = 44 THEN ParseMembers(t, SkipWs(t, e + 1), acc2)
        ELSE ParseFail

\* json.loads(text): the mapping, or JSONDecodeError
json_loads(t) ==
    LET i == SkipWs(t, 1)
        j == SkipWs(t, i + 1)
        r == IF j <= Len(t) /\ t[j] = 125
             THEN [ok |-> TRUE, val |-> <<>>, next |-> j + 1]
             ELSE ParseMembers(t, j, <<>>)
    IN  IF i > Len(t) \/ t[i] # 123 THEN Raise("JSONDecodeError", "Expecting value")
        ELSE IF ~r.ok THEN Raise("JSONDecodeError", "Expecting value")
        ELSE IF SkipWs(t, r.next) <= Len(t) THEN Raise("JSONDecodeError", "Extra data")
        ELSE Ok("map", r.val)

----------------------------------------------------------------------------
(* src/src/mega/crypto.py                                                  *)

\* codecs.latin_1_encode(x)[0]: the character of code c becomes the byte c
makebyte(x) == [i \in 1..Len(x) |-> x[i]]

\* codecs.latin_1_decode(x)[0]: the byte c becomes the character of code c
makestring(x) == [i \in 1..Len(x) |-> x[i]]

aes_cbc_encrypt(data, k) ==
    IF Len(k) # 32 THEN Raise("ValueError", "Key must be 32 bytes long")
    ELSE AES_CBC_encrypt(k, ZeroIV, data)

\* aes_cbc_decrypt with an IV that is not the one of aes_cbc_encrypt
aes_cbc_decrypt_other_iv(data, k) ==
    IF Len(k) # 32 THEN Raise("ValueError", "Key must be 32 bytes long")
    ELSE AES_CBC_decrypt(k, [i \in 1..16 |-> 1], data)

aes_cbc_decrypt(data, k) ==
    IF Len(k) # 32 THEN Raise("ValueError", "Key must be 32 bytes long")
    ELSE AES_CBC_decrypt(k, ZeroIV, data)

aes_cbc_encrypt_a32(data, k) ==
    IF Len(k) # 4 THEN Raise("ValueError", "Key must be 4 integers long")
    ELSE LET r == aes_cbc_encrypt(a32_to_str(data), a32_to_str(k))
         IN  IF IsError(r) THEN r ELSE Ok("words", str_to_a32(r.val))

aes_cbc_decrypt_a32(data, k) ==
    IF Len(k) # 4 THEN Raise("ValueError", "Key must be 4 integers long")
    ELSE LET r == aes_cbc_decrypt(a32_to_str(data), a32_to_str(k))
         IN  IF IsError(r) THEN r ELSE Ok("words", str_to_a32(r.val))

\* a[i:i + 4]
Slice4(a, i) == SubSeq(a, i + 1, IF i + 4 <= Len(a) THEN i + 4 ELSE Len(a))

\* sum((aes_cbc_encrypt_a32(a[i:i + 4], key) for i in range(0, len(a), 4)), ())
RECURSIVE EncryptKeyFrom(_, _, _)
EncryptKeyFrom(a, k, i) ==
    IF i >= Len(a) THEN Ok("words", <<>>)
    ELSE LET r == aes_cbc_encrypt_a32(Slice4(a, i), k)
             rest == EncryptKeyFrom(a, k, i + 4)
         IN  IF IsError(r) THEN r
             ELSE IF IsError(rest) THEN rest
             ELSE Ok("words", r.val \o rest.val)

encrypt_key(a, k) ==
    IF Len(k) # 4 THEN Raise("ValueError", "Key must be 4 integers long")
    ELSE EncryptKeyFrom(a, k, 0)

RECURSIVE DecryptKeyFrom(_, _, _)
DecryptKeyFrom(a, k, i) ==
    IF i >= Len(a) THEN Ok("words", <<>>)
    ELSE LET r == aes_cbc_decrypt_a32(Slice4(a, i), k)
             rest == DecryptKeyFrom(a, k, i + 4)
         IN  IF IsError(r) THEN r
             ELSE IF IsError(rest) THEN rest
             ELSE Ok("words", r.val \o rest.val)

decrypt_key(a, k) ==
    IF Len(k) # 4 THEN Raise("ValueError", "Key must be 4 integers long")
    ELSE DecryptKeyFrom(a, k, 0)

\* [0x93C467E3, 0x7DB0C7A4, 0xD1BE3F81, 0x0152CB56]
InitialPkey == << <<37828, 26595>>, <<32176, 51108>>, <<53694, 16257>>, <<338, 52054>> >>

\* range(0x10000)
PrepareKeyRounds == 65536

\* key = [0, 0, 0, 0]; for i in range(4): if i + j < len(arr): key[i] = arr[i + j]
KeyBlock(arr, j) ==
    [i \in 1..4 |-> IF (i - 1) + j < Len(arr) THEN arr[i + j] ELSE <<0, 0>>]

\* for j in range(0, len(arr), 4): pkey = aes_cbc_encrypt_a32(pkey, key)
RECURSIVE PrepareKeyRound(_, _, _)
PrepareKeyRound(pkey, arr, j) ==
    IF j >= Len(arr) THEN Ok("words", pkey)
    ELSE LET r == aes_cbc_encrypt_a32(pkey, KeyBlock(arr, j))
         IN  IF IsError(r) THEN r ELSE PrepareKeyRound(r.val, arr, j + 4)

\* for r in range(0x10000): a round that raises ends the call; a round that
\* leaves pkey as it was is repeated by all the rounds left, with the same end
RECURSIVE PrepareKeyLoop(_, _, _)
PrepareKeyLoop(pkey, arr, n) ==
    IF n = 0 THEN Ok("words", pkey)
    ELSE LET r == PrepareKeyRound(pkey, arr, 0)
         IN  IF IsError(r) THEN r
             ELSE IF r.val = pkey THEN r
             ELSE PrepareKeyLoop(r.val, arr, n - 1)

prepare_key(arr) ==
    IF Len(arr) % 4 # 0
    THEN Raise("ValueError", "Input array length must be multiple of 4")
    ELSE PrepareKeyLoop(InitialPkey, arr, PrepareKeyRounds)

\* 'MEGA'
Magic == <<77, 69, 71, 65>>

\* 'MEGA{"'
MagicObject == <<77, 69, 71, 65, 123, 34>>

\* attr_str + padding with padding = b'\0' * ((16 - len(attr_str) % 16) % 16)
AttrPlaintext_pad_if_needed(attr) ==
    LET attr_str == makebyte(Magic \o json_dumps(attr))
        padding == Zeros((16 - (Len(attr_str) % 16)) % 16)
    IN  attr_str \o padding

\* attr_str + padding: what encrypt_attr hands to aes_cbc_encrypt
AttrPlaintext(attr) ==
    LET attr_str == makebyte(Magic \o json_dumps(attr))
        padding == Zeros(16 - (Len(attr_str) % 16))
    IN  attr_str \o padding

encrypt_attr(attr, k) ==
    IF Len(k) # 4 THEN Raise("ValueError", "Key must be 4 integers long")
    ELSE aes_cbc_encrypt(AttrPlaintext(attr), a32_to_str(k))

\* str.rstrip('\0')
RECURSIVE rstrip0(_)
rstrip0(t) ==
    IF Len(t) > 0 /\ t[Len(t)] = 0 THEN rstrip0(SubSeq(t, 1, Len(t) - 1)) ELSE t

\* t[:n]
Prefix(t, n) == SubSeq(t, 1, IF n <= Len(t) THEN n ELSE Len(t))

\* the body of the try block of decrypt_attr
DecryptAttrBody(attr, k) ==
    LET decrypted == aes_cbc_decrypt(attr, a32_to_str(k))
        decrypted_str == rstrip0(makestring(decrypted.val))
    IN  IF IsError(decrypted) THEN decrypted
        ELSE IF Prefix(decrypted_str, 6) = MagicObject
        THEN json_loads(SubSeq(decrypted_str, 5, Len(decrypted_str)))
        ELSE Ok("None", <<>>)

\* decrypt_attr without its except clause
decrypt_attr_uncaught(attr, k) ==
    IF Len(k) # 4 THEN Raise("ValueError", "Key must be 4 integers long")
    ELSE DecryptAttrBody(attr, k)

decrypt_attr(attr, k) ==
    IF Len(k) # 4 THEN Raise("ValueError", "Key must be 4 integers long")
    ELSE LET r == DecryptAttrBody(attr, k)
         IN  IF r.kind \in {"ValueError", "JSONDecodeError"}
             THEN Ok("None", <<>>)
             ELSE r

\* g, y, x = extended_gcd(b % a, a); return (g, x - (b // a) * y, y)
RECURSIVE extended_gcd(_, _)
extended_gcd(a, b) ==
    IF a = 0 THEN <<b, 0, 1>>
    ELSE LET t == extended_gcd(b % a, a)
         IN  <<t[1], t[3] - (b \div a) * t[2], t[2]>>

\* modular_inverse returning x as extended_gcd gives it
modular_inverse_raw_x(a, m) ==
    LET t == extended_gcd(a, m)
    IN  IF t[1] # 1 THEN Raise("Exception", "modular inverse does not exist")
        ELSE Ok("int", <<t[2]>>)

modular_inverse(a, m) ==
    LET t == extended_gcd(a, m)
    IN  IF t[1] # 1 THEN Raise("Exception", "modular inverse does not exist")
        ELSE Ok("int", <<t[2] % m>>)
\* t.replace(search, replace) for one character; replace is a text
ReplaceChar(t, search, replace) ==
    LET RECURSIVE Go(_)
        Go(i) == IF i > Len(t) THEN <<>>
                 ELSE (IF t[i] = search THEN replace ELSE <<t[i]>>) \o Go(i + 1)
    IN  Go(1)

\* the character of a 6-bit value in the standard base64 alphabet
B64Char(v) ==
    IF v < 26 THEN 65 + v
    ELSE IF v < 52 THEN 97 + (v - 26)
    ELSE IF v < 62 THEN 48 + (v - 52)
    ELSE IF v = 62 THEN 43
    ELSE 47

\* the 6-bit value of a character, -1 for a character outside the alphabet
B64Val(c) ==
    IF 65 <= c /\ c <= 90 THEN c - 65
    ELSE IF 97 <= c /\ c <= 122 THEN c - 97 + 26
    ELSE IF 48 <= c /\ c <= 57 THEN c - 48 + 52
    ELSE IF c = 43 THEN 62
    ELSE IF c = 47 THEN 63
    ELSE -1

\* base64.b64encode(data): 3 bytes to 4 characters, the tail padded with '='
RECURSIVE b64encode(_)
b64encode(d) ==
    IF Len(d) = 0 THEN <<>>
    ELSE IF Len(d) = 1
    THEN << B64Char(d[1] \div 4), B64Char((d[1] % 4) * 16), 61, 61 >>
    ELSE IF Len(d) = 2
    THEN << B64Char(d[1] \div 4), B64Char((d[1] % 4) * 16 + (d[2] \div 16)),
            B64Char((d[2] % 16) * 4), 61 >>
    ELSE << B64Char(d[1] \div 4), B64Char((d[1] % 4) * 16 + (d[2] \div 16)),
            B64Char((d[2] % 16) * 4 + (d[3] \div 64)), B64Char(d[3] % 64) >>
            \o b64encode(SubSeq(d, 4, Len(d)))

\* binascii.a2b_base64 (not strict), from character i on: quad is the
\* position in the group of 4, left the bits not yet written, pads the '='
\* seen since the last character of the alphabet
RECURSIVE A2bBase64(_, _, _, _, _, _)
A2bBase64(t, i, quad, left, pads, out) ==
    IF i > Len(t)
    THEN IF quad # 0 THEN Raise("ValueError", "Incorrect padding")
         ELSE Ok("bytes", out)
    ELSE IF t[i] = 61
    THEN IF quad >= 2 /\ quad + pads + 1 >= 4 THEN Ok("bytes", out)
         ELSE A2bBase64(t, i + 1, quad, left, IF quad >= 2 THEN pads + 1 ELSE pads, out)
    ELSE IF B64Val(t[i]) = -1 THEN A2bBase64(t, i + 1, quad, left, pads, out)
    ELSE LET v == B64Val(t[i])
         IN  IF quad = 0 THEN A2bBase64(t, i + 1, 1, v, 0, out)
             ELSE IF quad = 1
             THEN A2bBase64(t, i + 1, 2, v % 16, 0, Append(out, left * 4 + (v \div 16)))
             ELSE IF quad = 2
             THEN A2bBase64(t, i + 1, 3, v % 4, 0, Append(out, left * 16 + (v \div 4)))
             ELSE A2bBase64(t, i + 1, 0, 0, 0, Append(out, left * 64 + v))

\* base64.b64decode(data)
b64decode(t) == A2bBase64(t, 1, 0, 0, 0, <<>>)

\* '=='[(2 - n * 3) % 4:]
B64Padding(n) == SubSeq(<<61, 61>>, ((2 - n * 3) % 4) + 1, 2)

\* base64_url_decode without the line that appends the padding
base64_url_decode_unpadded(data) ==
    b64decode(ReplaceChar(ReplaceChar(ReplaceChar(data, 45, <<43>>), 95, <<47>>), 44, <<>>))

base64_url_decode(data) ==
    LET padded == data \o B64Padding(Len(data))
    IN  b64decode(ReplaceChar(ReplaceChar(ReplaceChar(padded, 45, <<43>>),
                                          95, <<47>>), 44, <<>>))

base64_url_encode(data) ==
    LET encoded == makestring(b64encode(data))
    IN  Ok("str", ReplaceChar(ReplaceChar(ReplaceChar(encoded, 43, <<45>>),
                                          47, <<95>>), 61, <<>>))

\* the hexadecimal digit of a value 0..15, in lower case
HexDigit(v) == IF v < 10 THEN 48 + v ELSE 97 + (v - 10)

\* binascii.hexlify(b): two digits per byte, the high one first
hexlify(b) ==
    [i \in 1..(2 * Len(b)) |->
        LET x == b[(i + 1) \div 2]
        IN  IF i % 2 = 1 THEN HexDigit(x \div 16) ELSE HexDigit(x % 16)]

\* the value of a hexadecimal digit
HexVal(c) == IF c <= 57 THEN c - 48 ELSE c - 97 + 10

\* int(text, 16) on the digits hexlify writes
int16(text) ==
    LET RECURSIVE Go(_, _)
        Go(i, acc) == IF i > Len(text) THEN acc
                      ELSE Go(i + 1, acc * 16 + HexVal(text[i]))
    IN  IF Len(text) = 0
        THEN Raise("ValueError", "invalid literal for int() with base 16")
        ELSE Ok("int", <<Go(1, 0)>>)

\* s[n:]
DropFirst(t, n) == SubSeq(t, n + 1, Len(t))

\* mpi_to_int reading from the second header byte on (s[1:])
mpi_to_int_from_header(s_) == int16(hexlify(DropFirst(s_, 1)))

mpi_to_int(s_) == int16(hexlify(DropFirst(s_, 2)))

\* p = 0; s = 0x20000
InitialChunk == 131072

\* if s < 0x100000:
ChunkCap == 1048576

\* s += 0x20000
ChunkStep == 131072

----------------------------------------------------------------------------
(* The inputs the model gives to the functions.                            *)

WordVals == { <<0, 0>>, <<258, 772>>, <<65535, 65535>> }

KeyVals == { <<0, 0>>, <<258, 772>> }

\* the array x, y, x, y, ... of n words
Arr(n, x, y) == [i \in 1..n |-> IF i % 2 = 1 THEN x ELSE y]

WordArrays == { Arr(n, x, y) : n \in 0..MaxWords, x \in WordVals, y \in WordVals }

\* keys of 0, 3, 4, 5 and 8 words (0, 12, 16, 20 and 32 bytes)
KeyLens == {0, 3, 4, 5, 8}

WordKeys == { Arr(n, x, y) : n \in KeyLens, x \in KeyVals, y \in KeyVals }

ByteKeys == { a32_to_str(k) : k \in WordKeys }

\* buffers of 0, 4, 8, ... bytes, and the same without their last byte
Bufs ==
    { a32_to_str(w) : w \in WordArrays }
        \cup { SubSeq(a32_to_str(w), 1, 4 * Len(w) - 1) : w \in WordArrays \ {<<>>} }

\* values "", "b", "bc", "bca", ...
Names == { [i \in 1..n |-> 97 + (i % 3)] : n \in 0..MaxName }

\* {}, {"n": name}, {"n": name, "c": "x"}
Attrs ==
    { <<>> } \cup { << <<<<110>>, v>> >> : v \in Names }
        \cup { << <<<<110>>, v>>, <<<<99>>, <<120>>>> >> : v \in Names }

\* the bytes a + d, a + 2d, ... (mod 256), n of them
ByteRamp(n, a, d) == [ i \in 1..n |-> (a + i * d) % 256 ]

\* buffers of 0 .. MaxBufLen bytes; 251 and 255 give the characters + and /
RawBufs == { ByteRamp(n, a, d) : n \in 0..MaxBufLen, a \in {0, 251, 255}, d \in {0, 37} }

\* "", "A", "AA", "AAA", "AA,A", "-_8", "QQ==", "QUJD"
B64Texts ==
    { <<>>, <<65>>, <<65, 65>>, <<65, 65, 65>>, <<65, 65, 44, 65>>,
      <<45, 95, 56>>, <<81, 81, 61, 61>>, <<81, 85, 74, 68>> }

\* magnitudes of 0 .. MaxMpiBytes bytes, the first of them below 128
Magnitudes ==
    { <<>> } \cup
    { <<a>> \o [i \in 1..n |-> IF i % 2 = 1 THEN b ELSE c] :
        n \in 0..(MaxMpiBytes - 1), a \in {0, 5, 127}, b \in {0, 5, 255}, c \in {0, 255} }

\* a 2-byte header, true (8 bits), zero or all ones, then the magnitude; and
\* buffers too short to hold a header
MpiBufs ==
    { h \o m : h \in { <<0, 8>>, <<0, 0>>, <<255, 255>> }, m \in Magnitudes }
        \cup { <<>>, <<5>> }

Nums == 0..MaxNum

\* 0, 65536, 131072, ... each with its two neighbours, and 1500000
Sizes ==
    { u * 65536 + d : u \in 0..MaxUnits, d \in {-1, 0, 1} } \cup { 1500000 }

----------------------------------------------------------------------------
(* A session of calls into the module.  Its first call takes its data     *)
(* from the inputs above; each later call, up to MaxChain calls in all,    *)
(* takes as its data the value the call before it returned.                *)

Threads == 1..NumThreads

\* a thread that has called nothing yet
Idle == [op |-> "none", n |-> 0, pc |-> "idle", out |-> <<>>]

NoPrev == [fn |-> "none", key |-> <<>>, arg |-> <<>>, ret |-> NoCall]

\* no MegaModernizer has been constructed
NoModernizer ==
    /\ files = [q \in {} |-> <<>>]
    /\ before = [q \in {} |-> <<>>]
    /\ scanOrder = <<>>
    /\ dotRoot = FALSE
    /\ mpc = "none"
    /\ mret = "none"
    /\ python_files = {}
    /\ raisedIn = "none"
    /\ restored = FALSE

Init ==
    /\ fn = "none"
    /\ key = <<>>
    /\ arg = <<>>
    /\ ret = NoCall
    /\ prev = NoPrev
    /\ depth = 0
    /\ size = 0
    /\ p = 0
    /\ s = 0
    /\ gpc = "none"
    /\ emitted = <<>>
    /\ thr = [t \in Threads |-> Idle]
    /\ frames = [t \in Threads |-> [p |-> 0, s |-> 0]]
    /\ rng = 0
    /\ NoModernizer

Data(kind, Fresh, chained) ==
    IF chained
    THEN IF 0 < depth /\ depth < MaxChain /\ ret.kind = kind THEN {ret.val} ELSE {}
    ELSE IF depth = 0 THEN Fresh ELSE {}

Call(f, k, a, r, chained) ==
    /\ fn' = f
    /\ key' = k
    /\ arg' = a
    /\ ret' = r
    /\ prev' = IF chained
               THEN [fn |-> fn, key |-> key, arg |-> arg, ret |-> ret]
               ELSE NoPrev
    /\ depth' = IF chained THEN depth + 1 ELSE 1
    /\ UNCHANGED <<genVars, thrVars, modVars>>

Call_aes_cbc_encrypt ==
    \E k \in ByteKeys, chained \in BOOLEAN :
        \E d \in Data("bytes", Bufs, chained) :
            Call("aes_cbc_encrypt", k, d, aes_cbc_encrypt(d, k), chained)

Call_aes_cbc_decrypt ==
    \E k \in ByteKeys, chained \in BOOLEAN :
        \E d \in Data("bytes", Bufs, chained) :
            Call("aes_cbc_decrypt", k, d, aes_cbc_decrypt(d, k), chained)

Call_aes_cbc_encrypt_a32 ==
    \E k \in WordKeys, chained \in BOOLEAN :
        \E d \in Data("words", WordArrays, chained) :
            Call("aes_cbc_encrypt_a32", k, d, aes_cbc_encrypt_a32(d, k), chained)

Call_aes_cbc_decrypt_a32 ==
    \E k \in WordKeys, chained \in BOOLEAN :
        \E d \in Data("words", WordArrays, chained) :
            Call("aes_cbc_decrypt_a32", k, d, aes_cbc_decrypt_a32(d, k), chained)

Call_prepare_key ==
    \E chained \in BOOLEAN :
        \E d \in Data("words", WordArrays, chained) :
            Call("prepare_key", <<>>, d, prepare_key(d), chained)

Call_encrypt_key ==
    \E k \in WordKeys, chained \in BOOLEAN :
        \E d \in Data("words", WordArrays, chained) :
            Call("encrypt_key", k, d, encrypt_key(d, k), chained)

Call_decrypt_key ==
    \E k \in WordKeys, chained \in BOOLEAN :
        \E d \in Data("words", WordArrays, chained) :
            Call("decrypt_key", k, d, decrypt_key(d, k), chained)

Call_encrypt_attr ==
    \E k \in WordKeys, a \in Data("map", Attrs, FALSE) :
        Call("encrypt_attr", k, a, encrypt_attr(a, k), FALSE)

Call_decrypt_attr ==
    \E k \in WordKeys, chained \in BOOLEAN :
        \E d \in Data("bytes", Bufs, chained) :
            Call("decrypt_attr", k, d, decrypt_attr(d, k), chained)

Call_a32_to_str ==
    \E chained \in BOOLEAN :
        \E d \in Data("words", WordArrays, chained) :
            Call("a32_to_str", <<>>, d, Ok("bytes", a32_to_str(d)), chained)

Call_str_to_a32 ==
    \E chained \in BOOLEAN :
        \E d \in Data("bytes", Bufs \cup RawBufs, chained) :
            Call("str_to_a32", <<>>, d, Ok("words", str_to_a32(d)), chained)

Call_base64_url_encode ==
    \E chained \in BOOLEAN :
        \E d \in Data("bytes", RawBufs, chained) :
            Call("base64_url_encode", <<>>, d, base64_url_encode(d), chained)

Call_base64_url_decode ==
    \E chained \in BOOLEAN :
        \E d \in Data("str", B64Texts, chained) :
            Call("base64_url_decode", <<>>, d, base64_url_decode(d), chained)

Call_mpi_to_int ==
    \E d \in Data("bytes", MpiBufs, FALSE) :
        Call("mpi_to_int", <<>>, d, mpi_to_int(d), FALSE)

Call_extended_gcd ==
    \E a \in Data("int", Nums, FALSE), b \in Nums :
        Call("extended_gcd", <<>>, <<a, b>>, Ok("tuple", extended_gcd(a, b)), FALSE)

Call_modular_inverse ==
    \E a \in Data("int", Nums, FALSE), m \in Nums \ {0} :
        Call("modular_inverse", <<>>, <<a, m>>, modular_inverse(a, m), FALSE)

Next ==
    \/ Call_aes_cbc_encrypt
    \/ Call_aes_cbc_decrypt
    \/ Call_aes_cbc_encrypt_a32
    \/ Call_aes_cbc_decrypt_a32
    \/ Call_prepare_key
    \/ Call_encrypt_key
    \/ Call_decrypt_key
    \/ Call_encrypt_attr
    \/ Call_decrypt_attr
    \/ Call_a32_to_str
    \/ Call_str_to_a32
    \/ Call_base64_url_encode
    \/ Call_base64_url_decode
    \/ Call_mpi_to_int
    \/ Call_extended_gcd
    \/ Call_modular_inverse

Spec == Init /\ [][Next]_vars

----------------------------------------------------------------------------
(* The generator get_chunks(size) and its consumer: one action per         *)
(* next() of the consumer, which runs the generator to its next yield.     *)

\* RunToYield with the loop test p + s <= size
RunToYield_inclusive(np, ns) ==
    /\ p' = np
    /\ s' = ns
    /\ IF np + ns <= size
       THEN /\ emitted' = Append(emitted, <<np, ns>>)
            /\ gpc' = "yield_loop"
       ELSE /\ emitted' = Append(emitted, <<np, size - np>>)
            /\ gpc' = "yield_final"
    /\ UNCHANGED <<size, callVars, thrVars, modVars>>

\* while p + s < size: yield (p, s) ... yield (p, size - p), from the loop
\* test with the locals at np, ns
RunToYield(np, ns) ==
    /\ p' = np
    /\ s' = ns
    /\ IF np + ns < size
       THEN /\ emitted' = Append(emitted, <<np, ns>>)
            /\ gpc' = "yield_loop"
       ELSE /\ emitted' = Append(emitted, <<np, size - np>>)
            /\ gpc' = "yield_final"
    /\ UNCHANGED <<size, callVars, thrVars, modVars>>

\* get_chunks(size): a new generator, none of its body run yet
Call_get_chunks ==
    /\ gpc \in {"none", "done"}
    /\ \E n \in Sizes : size' = n
    /\ gpc' = "created"
    /\ emitted' = <<>>
    /\ UNCHANGED <<p, s, callVars, thrVars, modVars>>

\* the first next(): p = 0; s = 0x20000; then the loop test
NextFirst ==
    /\ gpc = "created"
    /\ RunToYield(0, InitialChunk)

\* NextResume advancing p by the step instead of the length just yielded
NextResume_step_offset ==
    /\ gpc = "yield_loop"
    /\ RunToYield(p + ChunkStep, IF s < ChunkCap THEN s + ChunkStep ELSE s)

\* NextResume growing s by a quarter of the step
NextResume_small_step ==
    /\ gpc = "yield_loop"
    /\ RunToYield(p + s, IF s < ChunkCap THEN s + (ChunkStep \div 4) ELSE s)

\* NextResume testing s <= 0x100000
NextResume_cap_inclusive ==
    /\ gpc = "yield_loop"
    /\ RunToYield(p + s, IF s <= ChunkCap THEN s + ChunkStep ELSE s)

\* NextResume without p += s
NextResume_no_advance ==
    /\ gpc = "yield_loop"
    /\ RunToYield(p, IF s < ChunkCap THEN s + ChunkStep ELSE s)

\* next() after a pair of the loop: p += s; if s < 0x100000: s += 0x20000
NextResume ==
    /\ gpc = "yield_loop"
    /\ RunToYield(p + s, IF s < ChunkCap THEN s + ChunkStep ELSE s)

\* next() after the final pair: the generator returns (StopIteration)
NextStop ==
    /\ gpc = "yield_final"
    /\ gpc' = "done"
    /\ UNCHANGED <<size, p, s, emitted, callVars, thrVars, modVars>>

NextChunks ==
    \/ Call_get_chunks
    \/ NextFirst
    \/ NextResume
    \/ NextStop

SpecChunks == Init /\ [][NextChunks]_vars

\* a consumer that keeps calling next() until the generator ends
SpecChunksFair ==
    /\ Init
    /\ [][NextChunks]_vars
    /\ WF_vars(NextFirst \/ NextResume \/ NextStop)
----------------------------------------------------------------------------
(* Properties of the calls, checked under Spec.                            *)

KeyLengthError(r) ==
    /\ r.kind = "ValueError"
    /\ r.msg \in {"Key must be 4 integers long", "Key must be 32 bytes long"}

\* C1: with a 4-word key and a word array whose length is a multiple of 4,
\* encrypt_key returns words that decrypt_key turns back into the array, and
\* decrypt_key returns words that encrypt_key turns back into the array;
\* neither call fails.
C1_WrapUnwrapInverse ==
    /\ (fn = "encrypt_key" /\ Len(key) = 4 /\ Len(arg) % 4 = 0) =>
          /\ ret.kind = "words"
          /\ LET back == decrypt_key(ret.val, key)
             IN  back.kind = "words" /\ back.val = arg
    /\ (fn = "decrypt_key" /\ Len(key) = 4 /\ Len(arg) % 4 = 0) =>
          /\ ret.kind = "words"
          /\ LET back == encrypt_key(ret.val, key)
             IN  back.kind = "words" /\ back.val = arg

\* C2: with a 4-word key, encrypt_attr returns a ciphertext from which
\* decrypt_attr, with the same key, recovers a mapping equal to the original.
C2_AttrRoundTrip ==
    (fn = "encrypt_attr" /\ Len(key) = 4) =>
        /\ ret.kind = "bytes"
        /\ LET back == decrypt_attr(ret.val, key)
           IN  back.kind = "map" /\ back.val = arg

\* C3: aes_cbc_encrypt_a32 and aes_cbc_decrypt_a32 fail with a key-length
\* error exactly when the key is not 4 words long; with a 4-word key and data
\* of a multiple of 4 words they return as many words as the data has, those
\* of the byte-oriented function on the two operands converted to bytes.
C3_WordCipherKeyLength ==
    /\ (fn \in {"aes_cbc_encrypt_a32", "aes_cbc_decrypt_a32"}) =>
          (KeyLengthError(ret) <=> Len(key) # 4)
    /\ (fn = "aes_cbc_encrypt_a32" /\ Len(key) = 4 /\ Len(arg) % 4 = 0) =>
          /\ ret.kind = "words"
          /\ Len(ret.val) = Len(arg)
          /\ ret.val = str_to_a32(aes_cbc_encrypt(a32_to_str(arg), a32_to_str(key)).val)
    /\ (fn = "aes_cbc_decrypt_a32" /\ Len(key) = 4 /\ Len(arg) % 4 = 0) =>
          /\ ret.kind = "words"
          /\ Len(ret.val) = Len(arg)
          /\ ret.val = str_to_a32(aes_cbc_decrypt(a32_to_str(arg), a32_to_str(key)).val)

\* C4: for every word array whose length is a multiple of 4, the empty one
\* and the others, prepare_key returns a key of 4 words.
C4_PrepareKeyTotal ==
    (fn = "prepare_key" /\ Len(arg) % 4 = 0) =>
        (ret.kind = "words" /\ Len(ret.val) = 4)

\* C5: with a 4-word key decrypt_attr raises nothing: it returns a mapping or
\* None, and None whenever the decryption fails or the first 6 characters of
\* the decrypted text are not MEGA{".
C5_DecryptAttrNeverRaises ==
    (fn = "decrypt_attr" /\ Len(key) = 4) =>
        /\ ret.kind \in {"map", "None"}
        /\ LET d == aes_cbc_decrypt(arg, a32_to_str(key))
           IN  (IsError(d) \/ Prefix(rstrip0(makestring(d.val)), 6) # MagicObject)
                  => ret.kind = "None"

C5_Witness ==
    /\ fn = "decrypt_attr"
    /\ Len(key) = 4
    /\ Len(arg) = 16
    /\ ret.kind = "None"

\* C6: with a key of 32 bytes and a buffer whose length is a multiple of 16,
\* aes_cbc_decrypt of what aes_cbc_encrypt returned, under the same key, is
\* the buffer: the two calls each start from the all-zero IV.
C6_CbcRoundTrip ==
    (/\ fn = "aes_cbc_decrypt"
     /\ prev.fn = "aes_cbc_encrypt"
     /\ Len(prev.key) = 32
     /\ key = prev.key
     /\ Len(prev.arg) % 16 = 0) =>
        (ret.kind = "bytes" /\ ret.val = prev.arg)

C6_Witness ==
    /\ fn = "aes_cbc_decrypt"
    /\ prev.fn = "aes_cbc_encrypt"
    /\ Len(key) = 32
    /\ key = prev.key
    /\ Len(prev.arg) = 32
    /\ arg # prev.arg
    /\ ret.kind = "bytes"
    /\ ret.val = prev.arg

\* the greatest common divisor, by its definition
Divides(d, n) == n % d = 0

Gcd(a, b) ==
    IF a = 0 /\ b = 0 THEN 0
    ELSE CHOOSE d \in 1..(a + b) :
            /\ Divides(d, a) /\ Divides(d, b)
            /\ \A e \in 1..(a + b) : (Divides(e, a) /\ Divides(e, b)) => e <= d

\* C10: for a >= 0 and m >= 1, modular_inverse(a, m) returns r with
\* 0 <= r < m and m dividing a * r - 1 when gcd(a, m) = 1, and raises
\* 'modular inverse does not exist', returning nothing, otherwise;
\* extended_gcd(a, b) returns (g, x, y) with g = gcd(a, b) and
\* a * x + b * y = g; modular_inverse(3, 11) is 4 and modular_inverse(2, 4)
\* raises.
C10_ModularInverse ==
    /\ fn = "modular_inverse" =>
          LET a == arg[1]
              m == arg[2]
          IN  IF Gcd(a, m) = 1
              THEN /\ ret.kind = "int"
                   /\ 0 <= ret.val[1] /\ ret.val[1] < m
                   /\ (a * ret.val[1] - 1) % m = 0
              ELSE /\ ret.kind = "Exception"
                   /\ ret.msg = "modular inverse does not exist"
                   /\ ret.val = <<>>
    /\ fn = "extended_gcd" =>
          LET a == arg[1]
              b == arg[2]
          IN  /\ ret.val[1] = Gcd(a, b)
              /\ a * ret.val[2] + b * ret.val[3] = ret.val[1]
    /\ (fn = "modular_inverse" /\ arg[1] = 3 /\ arg[2] = 11) => ret.val = <<4>>
    /\ (fn = "modular_inverse" /\ arg[1] = 2 /\ arg[2] = 4) => ret.kind = "Exception"

C10_Witness ==
    /\ fn = "modular_inverse"
    /\ arg[1] = 3 /\ arg[2] = 11
    /\ ret.kind = "int"
    /\ ret.val = <<4>>

----------------------------------------------------------------------------
(* Properties of get_chunks, checked under SpecChunks.                     *)

RECURSIVE SumLengths(_)
SumLengths(e) == IF Len(e) = 0 THEN 0 ELSE e[1][2] + SumLengths(Tail(e))

\* the final pair has been emitted
FinalEmitted == gpc \in {"yield_final", "done"}

\* C7: for size >= 1, after every next() the pairs received so far start at
\* offset 0, each starts where the one before it ends and none is empty;
\* once the final pair is received, it ends at size and the lengths add up
\* to size.
C7_ChunksCover ==
    size >= 1 =>
        /\ Len(emitted) > 0 => emitted[1][1] = 0
        /\ \A i \in 1..Len(emitted) : emitted[i][2] >= 1
        /\ \A i \in 2..Len(emitted) :
              emitted[i][1] = emitted[i - 1][1] + emitted[i - 1][2]
        /\ FinalEmitted =>
              /\ emitted[Len(emitted)][1] + emitted[Len(emitted)][2] = size
              /\ SumLengths(emitted) = size

C7_Witness ==
    /\ gpc = "done"
    /\ size >= 1
    /\ Len(emitted) >= 3
    /\ SumLengths(emitted) = size

\* C8 as stated: get_chunks(1500000) yields (0,131072), (131072,163840),
\* (294912,196608), (491520,229376), (720896,262144), (983040,1048576) and
\* then one final pair.
C8_Stated ==
    (size = 1500000 /\ gpc = "done") =>
        /\ Len(emitted) = 7
        /\ SubSeq(emitted, 1, 6) =
              << <<0, 131072>>, <<131072, 163840>>, <<294912, 196608>>,
                 <<491520, 229376>>, <<720896, 262144>>, <<983040, 1048576>> >>
        /\ SumLengths(emitted) = 1500000

\* C8 amended: get_chunks(1500000) yields (0,131072), (131072,262144),
\* (393216,393216), (786432,524288) and then the final pair
\* (1310720,189280); the lengths add up to 1500000.
C8_Chunks1500000 ==
    (size = 1500000 /\ gpc = "done") =>
        /\ emitted = << <<0, 131072>>, <<131072, 262144>>, <<393216, 393216>>,
                        <<786432, 524288>>, <<1310720, 189280>> >>
        /\ SumLengths(emitted) = 1500000

C8_Witness ==
    /\ size = 1500000
    /\ gpc = "done"
    /\ Len(emitted) = 5

Min(x, y) == IF x <= y THEN x ELSE y

\* the pair number k received so far is a pair of the loop, not the final one
NonFinal(k) == k < Len(emitted) \/ (k = Len(emitted) /\ gpc = "yield_loop")

\* C9: the k-th pair of the loop (k = 0, 1, ...) has length
\* min((k + 1) * 131072, 1048576); no pair is longer than 1048576; the final
\* pair is no longer than the pair of the loop in its place would have been.
C9_ChunkLengths ==
    \A k \in 1..Len(emitted) :
        /\ emitted[k][2] <= 1048576
        /\ NonFinal(k) => emitted[k][2] = Min(k * 131072, 1048576)
        /\ ~NonFinal(k) => emitted[k][2] <= Min(k * 131072, 1048576)

C9_Witness ==
    /\ gpc = "done"
    /\ Len(emitted) >= 10
    /\ emitted[7][2] = 917504
    /\ emitted[8][2] = 1048576
    /\ emitted[9][2] = 1048576
----------------------------------------------------------------------------
(* Properties of the codecs, checked under Spec.                           *)

\* C11: base64_url_decode of what base64_url_encode returned is the buffer
\* encoded; the encoder's output has a length n that is not 1 modulo 4, and
\* the decoder appends to it as many '=' as the encoder dropped: 0 when
\* n mod 4 is 0, 2 when it is 2, 1 when it is 3, which makes the length a
\* multiple of 4.
C11_Base64RoundTrip ==
    /\ (fn = "base64_url_decode" /\ prev.fn = "base64_url_encode") =>
          (ret.kind = "bytes" /\ ret.val = prev.arg)
    /\ fn = "base64_url_encode" =>
          LET n == Len(ret.val)
              pad == Len(B64Padding(n))
          IN  /\ ret.kind = "str"
              /\ n % 4 # 1
              /\ pad = (IF n % 4 = 0 THEN 0 ELSE IF n % 4 = 2 THEN 2 ELSE 1)
              /\ pad = Len(b64encode(arg)) - n
              /\ (n + pad) % 4 = 0

C11_Witness ==
    /\ fn = "base64_url_decode"
    /\ prev.fn = "base64_url_encode"
    /\ Len(prev.arg) = 17
    /\ \E i \in 1..Len(arg) : arg[i] = 45
    /\ \E i \in 1..Len(arg) : arg[i] = 95
    /\ ret.kind = "bytes"
    /\ ret.val = prev.arg
\* C12: a32_to_str(w) has 4 bytes per word, each word with its high byte
\* first; str_to_a32 of it is w, for w of any length; a32_to_str of
\* str_to_a32(b) is b followed by the 0 to 3 zero bytes that bring its
\* length to a multiple of 4.
C12_WordCodec ==
    /\ fn = "a32_to_str" =>
          /\ ret.kind = "bytes"
          /\ Len(ret.val) = 4 * Len(arg)
          /\ \A j \in 1..Len(arg) :
                /\ arg[j][1] = ret.val[4 * j - 3] * 256 + ret.val[4 * j - 2]
                /\ arg[j][2] = ret.val[4 * j - 1] * 256 + ret.val[4 * j]
    /\ (fn = "str_to_a32" /\ prev.fn = "a32_to_str") =>
          (ret.kind = "words" /\ ret.val = prev.arg)
    /\ (fn = "a32_to_str" /\ prev.fn = "str_to_a32") =>
          LET b == prev.arg
              added == Len(ret.val) - Len(b)
          IN  /\ added \in 0..3
              /\ Len(ret.val) % 4 = 0
              /\ SubSeq(ret.val, 1, Len(b)) = b
              /\ \A i \in (Len(b) + 1)..Len(ret.val) : ret.val[i] = 0

C12_Witness ==
    /\ fn = "str_to_a32"
    /\ prev.fn = "a32_to_str"
    /\ Len(prev.arg) = 5
    /\ prev.arg[1] = <<258, 772>>
    /\ SubSeq(arg, 1, 4) = <<1, 2, 3, 4>>
    /\ ret.val = prev.arg
\* the unsigned integer a byte sequence is in big-endian order
RECURSIVE BigEndian(_)
BigEndian(b) ==
    IF Len(b) = 0 THEN 0
    ELSE BigEndian(SubSeq(b, 1, Len(b) - 1)) * 256 + b[Len(b)]

\* C13: for a buffer with at least one byte after its 2-byte header,
\* mpi_to_int returns the big-endian unsigned integer of all the bytes after
\* the header, whatever the header says; 0x00 0x08 0x05 gives 5.
C13_DecodeMpi ==
    /\ (fn = "mpi_to_int" /\ Len(arg) >= 3) =>
          /\ ret.kind = "int"
          /\ ret.val = << BigEndian(SubSeq(arg, 3, Len(arg))) >>
    /\ (fn = "mpi_to_int" /\ arg = <<0, 8, 5>>) => ret.val = <<5>>

C13_Witness ==
    /\ fn = "mpi_to_int"
    /\ Len(arg) = 5
    /\ SubSeq(arg, 1, 2) = <<255, 255>>
    /\ arg[3] = 5 /\ arg[4] = 255 /\ arg[5] = 0
    /\ ret.val = <<392960>>
----------------------------------------------------------------------------
(* Threads calling get_chunks and make_id at the same time.  Each thread   *)
(* consumes a generator of its own or runs one make_id; the interpreter    *)
(* switches threads between statements.  random.choice is one step on the  *)
(* state of the module-level generator of the random library, abstracted   *)
(* as a linear congruential generator of 64 states.                        *)

\* the sizes the threads give to get_chunks: 1, 1, 2 and 3 pairs
ThreadSizes == {0, 131072, 131073, 400000}

\* the seeds the process may start from
Seeds == {0, 17}

\* "ABCDEFGHIJKLMNOPQRSTUVWXYZabcdefghijklmnopqrstuvwxyz0123456789"[i]
Possible(i) ==
    IF i < 26 THEN 65 + i
    ELSE IF i < 52 THEN 97 + (i - 26)
    ELSE 48 + (i - 52)

\* random.choice(possible): the next state of the generator, and its draw
RngNext(r) == (5 * r + 3) % 64

RngChoice(r) == Possible(RngNext(r) % 62)

\* all generators keeping their locals in one place (module-level p and s)
FrameOf_shared(t) == 1

\* the frame that holds the locals of the generator of thread t: its own
FrameOf(t) == t

\* get_chunks(size) run alone, from the loop test with the locals at cp, cs
RECURSIVE ChunkSeq(_, _, _)
ChunkSeq(n, cp, cs) ==
    IF cp + cs < n
    THEN << <<cp, cs>> >> \o ChunkSeq(n, cp + cs, IF cs < ChunkCap THEN cs + ChunkStep ELSE cs)
    ELSE << <<cp, n - cp>> >>

InitThreads ==
    /\ fn = "none"
    /\ key = <<>>
    /\ arg = <<>>
    /\ ret = NoCall
    /\ prev = NoPrev
    /\ depth = 0
    /\ size = 0
    /\ p = 0
    /\ s = 0
    /\ gpc = "none"
    /\ emitted = <<>>
    /\ thr = [t \in Threads |-> Idle]
    /\ frames = [t \in Threads |-> [p |-> 0, s |-> 0]]
    /\ rng \in Seeds
    /\ NoModernizer

SetThread(t, pc, out) ==
    thr' = [thr EXCEPT ![t] = [@ EXCEPT !.pc = pc, !.out = out]]

\* thread t: get_chunks(n), and the first next() entering the body
T_get_chunks(t) ==
    /\ thr[t].pc = "idle"
    /\ \E n \in ThreadSizes :
          thr' = [thr EXCEPT ![t] = [op |-> "get_chunks", n |-> n, pc |-> "p = 0", out |-> <<>>]]
    /\ UNCHANGED <<frames, rng, callVars, genVars, modVars>>

\* p = 0
T_init_p(t) ==
    /\ thr[t].pc = "p = 0"
    /\ frames' = [frames EXCEPT ![FrameOf(t)].p = 0]
    /\ SetThread(t, "s = 0x20000", thr[t].out)
    /\ UNCHANGED <<rng, callVars, genVars, modVars>>

\* s = 0x20000
T_init_s(t) ==
    /\ thr[t].pc = "s = 0x20000"
    /\ frames' = [frames EXCEPT ![FrameOf(t)].s = InitialChunk]
    /\ SetThread(t, "while", thr[t].out)
    /\ UNCHANGED <<rng, callVars, genVars, modVars>>

\* while p + s < size: yield (p, s) / yield (p, size - p)
T_test_yield(t) ==
    /\ thr[t].pc = "while"
    /\ LET f == frames[FrameOf(t)]
       IN  IF f.p + f.s < thr[t].n
           THEN SetThread(t, "yielded", Append(thr[t].out, <<f.p, f.s>>))
           ELSE SetThread(t, "yielded last", Append(thr[t].out, <<f.p, thr[t].n - f.p>>))
    /\ UNCHANGED <<frames, rng, callVars, genVars, modVars>>

\* next(): p += s
T_advance(t) ==
    /\ thr[t].pc = "yielded"
    /\ frames' = [frames EXCEPT ![FrameOf(t)].p = @ + frames[FrameOf(t)].s]
    /\ SetThread(t, "if", thr[t].out)
    /\ UNCHANGED <<rng, callVars, genVars, modVars>>

\* if s < 0x100000: s += 0x20000
T_grow(t) ==
    /\ thr[t].pc = "if"
    /\ frames' = [frames EXCEPT ![FrameOf(t)].s = IF @ < ChunkCap THEN @ + ChunkStep ELSE @]
    /\ SetThread(t, "while", thr[t].out)
    /\ UNCHANGED <<rng, callVars, genVars, modVars>>

\* next() after the final pair: the generator returns
T_stop(t) ==
    /\ thr[t].pc = "yielded last"
    /\ SetThread(t, "done", thr[t].out)
    /\ UNCHANGED <<frames, rng, callVars, genVars, modVars>>

\* thread t: make_id(length); text = ''
T_make_id(t) ==
    /\ thr[t].pc = "idle"
    /\ \E n \in 0..MaxIdLen :
          thr' = [thr EXCEPT ![t] = [op |-> "make_id", n |-> n, pc |-> "for", out |-> <<>>]]
    /\ UNCHANGED <<frames, rng, callVars, genVars, modVars>>

\* for i in range(length): text += random.choice(possible)
T_draw(t) ==
    /\ thr[t].pc = "for"
    /\ Len(thr[t].out) < thr[t].n
    /\ rng' = RngNext(rng)
    /\ SetThread(t, "for", Append(thr[t].out, RngChoice(rng)))
    /\ UNCHANGED <<frames, callVars, genVars, modVars>>

\* return text
T_return_id(t) ==
    /\ thr[t].pc = "for"
    /\ Len(thr[t].out) = thr[t].n
    /\ SetThread(t, "done", thr[t].out)
    /\ UNCHANGED <<frames, rng, callVars, genVars, modVars>>

NextThreads ==
    \E t \in Threads :
        \/ T_get_chunks(t)
        \/ T_init_p(t)
        \/ T_init_s(t)
        \/ T_test_yield(t)
        \/ T_advance(t)
        \/ T_grow(t)
        \/ T_stop(t)
        \/ T_make_id(t)
        \/ T_draw(t)
        \/ T_return_id(t)

SpecThreads == InitThreads /\ [][NextThreads]_vars

IsPrefix(x, y) == Len(x) <= Len(y) /\ x = SubSeq(y, 1, Len(x))

AlphaNum == { Possible(i) : i \in 0..61 }

\* what thread t has received is what its call gives when it runs alone
AsAlone(t) ==
    /\ thr[t].op = "get_chunks" =>
          /\ IsPrefix(thr[t].out, ChunkSeq(thr[t].n, 0, 131072))
          /\ thr[t].pc \in {"yielded last", "done"} =>
                thr[t].out = ChunkSeq(thr[t].n, 0, 131072)
    /\ thr[t].op = "make_id" =>
          /\ Len(thr[t].out) <= thr[t].n
          /\ \A i \in 1..Len(thr[t].out) : thr[t].out[i] \in AlphaNum
          /\ thr[t].pc = "done" => Len(thr[t].out) = thr[t].n

\* C14: however the threads' calls are interleaved, each generator yields
\* the pairs it yields when consumed alone and each make_id returns as many
\* alphanumeric characters as asked; only a draw of make_id changes the
\* process-wide state (the random generator), and the generators' steps
\* leave it alone.
C14_ThreadsIndependent ==
    /\ [](\A t \in Threads : AsAlone(t))
    /\ [][rng' # rng =>
            \E t \in Threads :
                /\ thr[t].op = "make_id"
                /\ Len(thr'[t].out) = Len(thr[t].out) + 1]_vars

C14_Witness ==
    /\ thr[1].op = "get_chunks" /\ thr[1].n = 400000
    /\ thr[1].pc = "if" /\ Len(thr[1].out) = 2
    /\ thr[2].op = "get_chunks" /\ thr[2].n = 131073
    /\ thr[2].pc = "yielded last" /\ Len(thr[2].out) = 2
    /\ frames[1] # frames[2]
----------------------------------------------------------------------------
(* More properties of get_chunks, checked under SpecChunks and, for the    *)
(* consumer that keeps going, SpecChunksFair.                              *)

\* C15: a pair of length zero is received only for size 0, where it is the
\* whole sequence, the single pair (0, 0); for size >= 1 every pair, the
\* final one too, has length >= 1, and when p + s is exactly size the final
\* pair is the full chunk (p, s).
C15_NoEmptyChunk ==
    /\ \A k \in 1..Len(emitted) :
          emitted[k][2] = 0 => (size = 0 /\ emitted = << <<0, 0>> >>)
    /\ (size = 0 /\ FinalEmitted) => emitted = << <<0, 0>> >>
    /\ size >= 1 => \A k \in 1..Len(emitted) : emitted[k][2] >= 1
    /\ (FinalEmitted /\ p + s = size) => emitted[Len(emitted)] = <<p, s>>

C15_Witness ==
    /\ gpc = "done"
    /\ size = 393216
    /\ emitted = << <<0, 131072>>, <<131072, 262144>> >>

\* C16: a consumer that keeps calling next() on a generator receives its
\* final pair and then its end; every pair of the loop starts at least
\* 131072 after the one before it; and a generator ends having yielded the
\* sequence of its size, whatever generator was consumed before it.
C16_ChunksFinite ==
    /\ (gpc = "created") ~> (gpc = "done")
    /\ [][(gpc = "yield_loop" /\ gpc' \in {"yield_loop", "yield_final"})
            => p' >= p + 131072]_vars
    /\ [](gpc = "done" => emitted = ChunkSeq(size, 0, 131072))

C16_Witness ==
    /\ gpc = "done"
    /\ size > 5000000
    /\ Len(emitted) >= 10
    /\ emitted = ChunkSeq(size, 0, 131072)

----------------------------------------------------------------------------
(* The padding of encrypt_attr, checked under Spec.                        *)

\* C17: what encrypt_attr hands to the cipher is 'MEGA' + json.dumps(attr)
\* followed by zero bytes only; its length is a multiple of 16; the zero
\* bytes are 16 - (len mod 16) in number, between 1 and 16, and 16 when the
\* payload's length is already a multiple of 16.
C17_AttrPadding ==
    (fn = "encrypt_attr" /\ Len(key) = 4) =>
        LET payload == Magic \o json_dumps(arg)
            plain == AttrPlaintext(arg)
            added == Len(plain) - Len(payload)
        IN  /\ Len(plain) % 16 = 0
            /\ SubSeq(plain, 1, Len(payload)) = payload
            /\ \A i \in (Len(payload) + 1)..Len(plain) : plain[i] = 0
            /\ added = 16 - (Len(payload) % 16)
            /\ added \in 1..16
            /\ Len(payload) % 16 = 0 => added = 16

C17_Witness ==
    /\ fn = "encrypt_attr"
    /\ Len(key) = 4
    /\ Len(Magic \o json_dumps(arg)) = 16
    /\ Len(AttrPlaintext(arg)) = 32

----------------------------------------------------------------------------
(* modernize_mega.py: MegaModernizer.                                      *)
(*                                                                         *)
(* Data representation                                                     *)
(*   path        : the sequence of its parts below project_dir             *)
(*                 (<<"src", "mega", "mega.py">>)                          *)
(*   content     : the sequence of the file's lines; a block of text that  *)
(*                 a step inserts as a whole is one line of the model      *)
(*   file system : a function from the paths of the files to their content;*)
(*                 a directory exists when a file lies below it, and       *)
(*                 backup_dir exists, possibly empty, once it was made     *)
(* The time stamp in the name of the backup directory is the part "TS".    *)
(* The log, changes_log and the report text are not part of the model.     *)
(***************************************************************************)

\* a path of more parts than this is too long for the operating system
MaxPathParts == 7

backup_dir == <<"backup", "TS">>

\* the names that match the pattern "*.py"
PyNames == {"setup.py", "mega.py", "hook.py", "test_mega.py"}

IsPy(path) == path[Len(path)] \in PyNames

\* the parts that start with a dot
DotParts == {".git"}

\* the parts that contain the text "test"
TestParts == {"tests", "test_mega.py"}

config_files ==
    {"setup.py", "requirements.txt", "requirements-dev.txt", "setup.cfg",
     "pyproject.toml", "tox.ini"}

mega_py_path == <<"src", "mega", "mega.py">>
requirements_path == <<"requirements.txt">>
report_path == <<"modernization_report.json">>

\* any(part.startswith('.') for part in file_path.parts), file_path absolute
Hidden(path) == dotRoot \/ \E i \in 1..Len(path) : path[i] \in DotParts

\* path lies below directory d
Under(d, path) == Len(d) < Len(path) /\ SubSeq(path, 1, Len(d)) = d

\* path.relative_to(d)
relative_to(path, d) == SubSeq(path, Len(d) + 1, Len(path))

\* open(path, 'w') ... write(content), shutil.copy2(src, path)
WriteFile(fsys, path, content) ==
    [q \in DOMAIN fsys \cup {path} |-> IF q = path THEN content ELSE fsys[q]]

\* the files a directory lists
ListFiles(fsys, d) == {q \in DOMAIN fsys : Len(q) = Len(d) + 1 /\ Under(d, q)}

\* the directories a directory lists, the made backup directory included
ListDirs(fsys, d) ==
    {SubSeq(q, 1, Len(d) + 1) :
        q \in {r \in DOMAIN fsys \cup {backup_dir \o <<"">>} :
                  Len(r) > Len(d) + 1 /\ Under(d, r)}}

\* directories in the order in which the file system lists them
InOrder(dirs) ==
    LET names == SelectSeq(scanOrder, LAMBDA n : \E x \in dirs : x[Len(x)] = n)
    IN  [i \in 1..Len(names) |-> CHOOSE x \in dirs : x[Len(x)] = names[i]]

(* Path.rglob("*.py") with the body of the loop that consumes it.  rglob   *)
(* is a generator: it lists a directory when the walk reaches it, hands    *)
(* over its matching files, which the loop body copies one by one, then    *)
(* lists its sub-directories and walks them in turn.  A file the loop body *)
(* has written into a directory the walk has yet to reach is found there.  *)
(* The state of a walk is [fs, err]: the file system and whether a copy    *)
(* has raised OSError (file name too long), which ends the walk.           *)

\* where the loop body copies file q to: _create_backup, _restore_backup
CopyTarget(mode, q) ==
    IF mode = "backup" THEN backup_dir \o q ELSE relative_to(q, backup_dir)

\* the files of a listing the loop body copies
Copied(mode, listing) ==
    {q \in listing : IsPy(q) /\ (mode = "backup" => ~Hidden(q))}

\* backup_path.parent.mkdir(...); shutil.copy2(...) for the files of one listing
CopyFiles(st, mode, listing) ==
    LET srcs == Copied(mode, listing)
        dsts == {CopyTarget(mode, q) : q \in srcs}
    IN  IF \E r \in dsts : Len(r) > MaxPathParts
        THEN [st EXCEPT !.err = TRUE]
        ELSE [st EXCEPT !.fs =
                 [r \in DOMAIN st.fs \cup dsts |->
                     IF r \in dsts
                     THEN st.fs[CHOOSE q \in srcs : CopyTarget(mode, q) = r]
                     ELSE st.fs[r]]]

RECURSIVE Walk(_, _, _)
RECURSIVE WalkEach(_, _, _, _)

\* the walk of directory d and of everything below it
Walk(d, st, mode) ==
    IF st.err
    THEN st
    ELSE LET copied == CopyFiles(st, mode, ListFiles(st.fs, d))
         IN  IF copied.err
             THEN copied
             ELSE WalkEach(InOrder(ListDirs(copied.fs, d)), 1, copied, mode)

\* the walks of the sub-directories dirs[i], dirs[i + 1], ...
WalkEach(dirs, i, st, mode) ==
    IF i > Len(dirs) \/ st.err
    THEN st
    ELSE WalkEach(dirs, i + 1, Walk(dirs[i], st, mode), mode)

\* the first place at or after index i where content has the line, or 0
RECURSIVE FirstAt(_, _, _)
FirstAt(content, line, i) ==
    IF i > Len(content) THEN 0
    ELSE IF content[i] = line THEN i
    ELSE FirstAt(content, line, i + 1)

\* the lines of content after index i
After(content, i) == SubSeq(content, i + 1, Len(content))

ParseUrlDef == "def _parse_url(self, url):"
UrlKeyMissing == "raise RequestError('Url key missing')"
new_parse_url == "def _parse_url(self, url: str) -> str: <new body>"
DownloadUrlDef == "def download_url(self, url: str):"
DownloadFileCall == "return self._download_file(a, b)"
DownloadUrlChecks == "try: <checks of path, file_id, file_key>"
DownloadFileDef == "def _download_file(self, a, b):"
FileIsNone == "if file is None:"
DownloadFileChecks == "# Validate inputs <checks of file_handle, file_key>"

\* re.sub: every stretch from ParseUrlDef to the next UrlKeyMissing is replaced
RECURSIVE _fix_url_parsing(_)
_fix_url_parsing(content) ==
    LET i == FirstAt(content, ParseUrlDef, 1)
        j == IF i = 0 THEN 0 ELSE FirstAt(content, UrlKeyMissing, i + 1)
    IN  IF j = 0
        THEN content
        ELSE SubSeq(content, 1, i - 1) \o <<new_parse_url>>
                 \o _fix_url_parsing(After(content, j))

\* re.sub: the checks go in front of the return that follows DownloadUrlDef
RECURSIVE _fix_download_method(_)
_fix_download_method(content) ==
    LET i == FirstAt(content, DownloadUrlDef, 1)
        j == IF i = 0 THEN 0 ELSE FirstAt(content, DownloadFileCall, i + 1)
    IN  IF j = 0
        THEN content
        ELSE SubSeq(content, 1, j - 1) \o <<DownloadUrlChecks, DownloadFileCall>>
                 \o _fix_download_method(After(content, j))

\* re.sub: the checks go in front of the test that follows DownloadFileDef
RECURSIVE _add_better_error_handling(_)
_add_better_error_handling(content) ==
    LET i == FirstAt(content, DownloadFileDef, 1)
        j == IF i = 0 THEN 0 ELSE FirstAt(content, FileIsNone, i + 1)
    IN  IF j = 0
        THEN content
        ELSE SubSeq(content, 1, j - 1) \o <<DownloadFileChecks, FileIsNone>>
                 \o _add_better_error_handling(After(content, j))

\* the three fixes _fix_mega_download_issues applies to the text of mega.py
FixMega(content) ==
    _add_better_error_handling(_fix_download_method(_fix_url_parsing(content)))

\* _update_string_formatting, _update_exception_handling, _update_imports
ModernizeLine(line) ==
    IF line = "except ValueError, e:" THEN "except ValueError as e:" ELSE line

ModernizeSyntax(content) == [i \in 1..Len(content) |-> ModernizeLine(content[i])]

\* _add_return_type_hints, then _add_parameter_type_hints
HintLine(line) ==
    CASE line = "def __init__(self):" -> "def __init__(self) -> None:"
      [] line = ParseUrlDef -> "def _parse_url(self, url: str) -> None:"
      [] line = DownloadFileDef -> "def _download_file(self, a, b) -> None:"
      [] line = new_parse_url -> "def _parse_url(self, url: str) -> str: <new body, url: str>"
      [] line = DownloadUrlChecks -> "try: <checks of path: str, file_id, file_key>"
      [] OTHER -> line

AddTypeHints(content) == [i \in 1..Len(content) |-> HintLine(content[i])]

\* the lines that call one of the functions in replacements
OsPathCalls == {"os.path.join(a, b)"}

\* content.replace('import os', 'import os\nfrom pathlib import Path')
RECURSIVE AddPathImport(_)
AddPathImport(content) ==
    IF content = <<>> THEN <<>>
    ELSE IF Head(content) = "import os"
    THEN <<"import os", "from pathlib import Path">> \o AddPathImport(Tail(content))
    ELSE <<Head(content)>> \o AddPathImport(Tail(content))

\* the body of the loop of _update_deprecated_functions
UpdateDeprecated(content) ==
    IF /\ \E i \in 1..Len(content) : content[i] \in OsPathCalls
       /\ \A i \in 1..Len(content) : content[i] # "from pathlib import Path"
    THEN AddPathImport(content)
    ELSE content

(* The projects the modernizer is run on: any of the files below, in a     *)
(* project directory that does or does not lie under a dot directory, on a *)
(* file system that lists "backup" before, between or after its siblings.  *)

Legacy ==
    <<"import os", "def __init__(self):", "except ValueError, e:", "os.path.join(a, b)">>

MegaSource ==
    <<ParseUrlDef, UrlKeyMissing, DownloadUrlDef, DownloadFileCall,
      DownloadFileDef, FileIsNone>>

modern_requirements ==
    <<"requests>=2.31.0", "pycryptodome>=3.21.0,<4.0.0",
      "tenacity>=8.2.3,<9.0.0", "typing-extensions>=4.5.0,<5.0.0">>

FullProject ==
    (<<"setup.py">> :> Legacy)
        @@ (mega_py_path :> MegaSource)
        @@ (<<"tests", "test_mega.py">> :> Legacy)
        @@ (<<".git", "hook.py">> :> Legacy)
        @@ (requirements_path :> <<"requests">>)

Projects == {[q \in S |-> FullProject[q]] : S \in SUBSET DOMAIN FullProject}

ScanOrders ==
    { <<"backup", "src", "tests", ".git", "mega", "TS">>,
      <<"src", "backup", "tests", ".git", "mega", "TS">>,
      <<"src", "tests", ".git", "backup", "mega", "TS">> }

\* MegaModernizer(project_dir), and run_modernization() entered
InitModernize ==
    /\ fn = "none"
    /\ key = <<>>
    /\ arg = <<>>
    /\ ret = NoCall
    /\ prev = NoPrev
    /\ depth = 0
    /\ size = 0
    /\ p = 0
    /\ s = 0
    /\ gpc = "none"
    /\ emitted = <<>>
    /\ thr = [t \in Threads |-> Idle]
    /\ frames = [t \in Threads |-> [p |-> 0, s |-> 0]]
    /\ rng = 0
    /\ files \in Projects
    /\ before = files
    /\ scanOrder \in ScanOrders
    /\ dotRoot \in BOOLEAN
    /\ mpc = "_check_python_version"
    /\ mret = "none"
    /\ python_files = {}
    /\ raisedIn = "none"
    /\ restored = FALSE

\* a step that has ended normally: on to the next one
Proceed(next, fsys) ==
    /\ files' = fsys
    /\ mpc' = next
    /\ UNCHANGED <<mret, raisedIn, restored>>

\* _restore_backup: every *.py file below backup_dir is copied back
RestoreBackup(fsys) == Walk(backup_dir, [fs |-> fsys, err |-> FALSE], "restore").fs

\* except Exception: self._restore_backup(); return False
Handler(step, fsys) ==
    /\ files' = RestoreBackup(fsys)
    /\ restored' = TRUE
    /\ raisedIn' = step
    /\ mret' = "False"
    /\ mpc' = "returned"

\* step 1: if not self._check_python_version(): return False
M_check_python_version ==
    /\ mpc = "_check_python_version"
    /\ \E supported \in BOOLEAN :
          IF supported
          THEN /\ mpc' = "_update_pip"
               /\ UNCHANGED mret
          ELSE /\ mpc' = "returned"
               /\ mret' = "False"
    /\ UNCHANGED <<files, before, scanOrder, dotRoot, python_files, raisedIn, restored>>
    /\ UNCHANGED <<callVars, genVars, thrVars>>

\* step 2: pip is updated or the failure is logged
M_update_pip ==
    /\ mpc = "_update_pip"
    /\ Proceed("_create_backup", files)
    /\ UNCHANGED <<before, scanOrder, dotRoot, python_files>>
    /\ UNCHANGED <<callVars, genVars, thrVars>>

\* the configuration files that exist are copied after the *.py files
CopyConfig(fsys) ==
    LET present == {c \in config_files : <<c>> \in DOMAIN fsys}
        dsts == {backup_dir \o <<c>> : c \in present}
    IN  [q \in DOMAIN fsys \cup dsts |-> IF q \in dsts THEN fsys[<<q[3]>>] ELSE fsys[q]]

\* step 3: _create_backup
M_create_backup ==
    /\ mpc = "_create_backup"
    /\ LET st == Walk(<<>>, [fs |-> files, err |-> FALSE], "backup")
       IN  IF st.err
           THEN Handler("_create_backup", st.fs)
           ELSE Proceed("_scan_python_files", CopyConfig(st.fs))
    /\ UNCHANGED <<before, scanOrder, dotRoot, python_files>>
    /\ UNCHANGED <<callVars, genVars, thrVars>>

\* step 4: _scan_python_files
M_scan_python_files ==
    /\ mpc = "_scan_python_files"
    /\ python_files' = {q \in DOMAIN files : IsPy(q) /\ ~Hidden(q)}
    /\ Proceed("_update_dependencies", files)
    /\ UNCHANGED <<before, scanOrder, dotRoot>>
    /\ UNCHANGED <<callVars, genVars, thrVars>>

\* open(path, 'w') and f.write(content) that go through or raise OSError
WriteOutcomes == {"written", "open fails", "write fails"}

\* the file after the attempt: a failing write leaves it emptied by open
Attempt(fsys, path, content, outcome) ==
    CASE outcome = "written" -> WriteFile(fsys, path, content)
      [] outcome = "write fails" -> WriteFile(fsys, path, <<>>)
      [] OTHER -> fsys

\* step 5: _update_dependencies, and _update_requirements_file
M_update_dependencies ==
    /\ mpc = "_update_dependencies"
    /\ IF requirements_path \in DOMAIN files
       THEN \E outcome \in WriteOutcomes :
               LET fsys == Attempt(files, requirements_path, modern_requirements, outcome)
               IN  IF outcome = "written"
                   THEN Proceed("_fix_mega_download_issues", fsys)
                   ELSE Handler("_update_dependencies", fsys)
       ELSE Proceed("_fix_mega_download_issues", files)
    /\ UNCHANGED <<before, scanOrder, dotRoot, python_files>>
    /\ UNCHANGED <<callVars, genVars, thrVars>>

\* step 6: _fix_mega_download_issues
M_fix_mega_download_issues ==
    /\ mpc = "_fix_mega_download_issues"
    /\ IF mega_py_path \in DOMAIN files
       THEN \E outcome \in WriteOutcomes :
               LET fsys == Attempt(files, mega_py_path, FixMega(files[mega_py_path]), outcome)
               IN  IF outcome = "written"
                   THEN Proceed("_modernize_python_syntax", fsys)
                   ELSE Handler("_fix_mega_download_issues", fsys)
       ELSE Proceed("_modernize_python_syntax", files)
    /\ UNCHANGED <<before, scanOrder, dotRoot, python_files>>
    /\ UNCHANGED <<callVars, genVars, thrVars>>

\* a loop over self.python_files that rewrites each file whose text the step
\* changes; an exception in the body is logged and the file is left as it is
Rewrite(fsys, paths, step) ==
    [q \in DOMAIN fsys |->
        IF q \notin paths THEN fsys[q]
        ELSE CASE step = "_modernize_python_syntax" -> ModernizeSyntax(fsys[q])
               [] step = "_add_type_hints" -> AddTypeHints(fsys[q])
               [] step = "_update_deprecated_functions" -> UpdateDeprecated(fsys[q])]

\* 'test' in str(file_path)
HasTest(path) == \E i \in 1..Len(path) : path[i] \in TestParts

\* step 7: _modernize_python_syntax
M_modernize_python_syntax ==
    /\ mpc = "_modernize_python_syntax"
    /\ \E failing \in SUBSET python_files :
          Proceed("_add_type_hints", Rewrite(files, python_files \ failing, mpc))
    /\ UNCHANGED <<before, scanOrder, dotRoot, python_files>>
    /\ UNCHANGED <<callVars, genVars, thrVars>>

\* step 8: _add_type_hints
M_add_type_hints ==
    /\ mpc = "_add_type_hints"
    /\ \E failing \in SUBSET python_files :
          Proceed("_update_deprecated_functions",
                  Rewrite(files, {q \in python_files \ failing : ~HasTest(q)}, mpc))
    /\ UNCHANGED <<before, scanOrder, dotRoot, python_files>>
    /\ UNCHANGED <<callVars, genVars, thrVars>>

\* step 9: _update_deprecated_functions
M_update_deprecated_functions ==
    /\ mpc = "_update_deprecated_functions"
    /\ \E failing \in SUBSET python_files :
          Proceed("_run_compatibility_tests",
                  Rewrite(files, python_files \ failing, mpc))
    /\ UNCHANGED <<before, scanOrder, dotRoot, python_files>>
    /\ UNCHANGED <<callVars, genVars, thrVars>>

\* step 10: the tests pass or their failure is logged
M_run_compatibility_tests ==
    /\ mpc = "_run_compatibility_tests"
    /\ Proceed("_generate_report", files)
    /\ UNCHANGED <<before, scanOrder, dotRoot, python_files>>
    /\ UNCHANGED <<callVars, genVars, thrVars>>

\* step 11: _generate_report, and return True
M_generate_report ==
    /\ mpc = "_generate_report"
    /\ \E outcome \in WriteOutcomes :
          LET fsys == Attempt(files, report_path, <<"report">>, outcome)
          IN  IF outcome = "written"
              THEN /\ files' = fsys
                   /\ mpc' = "returned"
                   /\ mret' = "True"
                   /\ UNCHANGED <<raisedIn, restored>>
              ELSE Handler("_generate_report", fsys)
    /\ UNCHANGED <<before, scanOrder, dotRoot, python_files>>
    /\ UNCHANGED <<callVars, genVars, thrVars>>

NextModernize ==
    \/ M_check_python_version
    \/ M_update_pip
    \/ M_create_backup
    \/ M_scan_python_files
    \/ M_update_dependencies
    \/ M_fix_mega_download_issues
    \/ M_modernize_python_syntax
    \/ M_add_type_hints
    \/ M_update_deprecated_functions
    \/ M_run_compatibility_tests
    \/ M_generate_report

SpecModernize == InitModernize /\ [][NextModernize]_vars

\* the steps run_modernization takes after _create_backup has completed
AfterBackup ==
    {"_scan_python_files", "_update_dependencies", "_fix_mega_download_issues",
     "_modernize_python_syntax", "_add_type_hints", "_update_deprecated_functions",
     "_run_compatibility_tests", "_generate_report"}

\* the *.py files the project had before the run
ProjectPy == {q \in DOMAIN before : IsPy(q)}

(* C18: when a step after _create_backup has raised, _restore_backup has   *)
(* been called, run_modernization has returned False and every *.py file   *)
(* the project had before the run has the content it had then; and from    *)
(* the end of _create_backup on, the backup copy of every file it backed   *)
(* up keeps that content, through the scan and the rewriting steps.        *)
C18_RestoredOnFailure ==
    /\ (mpc = "returned" /\ raisedIn \in AfterBackup) =>
          /\ restored
          /\ mret = "False"
          /\ \A q \in ProjectPy : q \in DOMAIN files /\ files[q] = before[q]
    /\ (mpc \in AfterBackup) =>
          \A q \in ProjectPy :
              ~Hidden(q) => /\ (backup_dir \o q) \in DOMAIN files
                            /\ files[backup_dir \o q] = before[q]

====
